---- MODULE Spec2Model ----
(***************************************************************************)
(* State-machine model of the Shopify data sync app: the tenant registry   *)
(* (stores table), the credential issuer (api_keys table), the request     *)
(* pipeline of the /api routes (verifyApiKey, requireScope, the            *)
(* /v1/:resource handlers), the admin credential routes and the platform   *)
(* initiated routes (OAuth callback, uninstall, webhooks).                 *)
(*                                                                         *)
(* Strings are modelled at the granularity the code inspects them: a scope *)
(* is the pair (class, resource) that startsWith('read_') and              *)
(* replace('read_', 'write_') act on, and a comma separated scope string   *)
(* is the sequence of its tokens.  Random draws (keys, secrets) are fresh  *)
(* values.  An HTTP response is a record that stays pending until Close    *)
(* takes it away; no handler starts while a response is pending, so every  *)
(* response is observed together with the state it left behind.            *)
(***************************************************************************)
EXTENDS Integers, Sequences, FiniteSets, TLC

\* ------------------------------------------------------------------ bounds
MaxKeys == 2        \* credentials ever created (api_keys.id values)
MaxScopeLen == 1    \* scopes named in one scope string of a create request
MaxLogs == 1        \* rows ever inserted into sync_logs
MaxExcess == 2      \* requests of one limiter key counted beyond the limit in one window

\* ---------------------------------------------------------------- universe
Shops == {"foo.myshopify.com", "bar.myshopify.com"}
NoShop == "none"
Resources == {"orders"}
Classes == {"read", "write"}

\* the scope `<cls>_<res>`
Scope(cls, res) == [cls |-> cls, res |-> res]
Scopes == {Scope(c, r) : c \in Classes, r \in Resources}
\* the empty token that ''.split(',') yields
EmptyTok == Scope("", "")

\* a fixed enumeration of the scopes, used to build scope strings
ScopeOrder == <<Scope("read", "orders"), Scope("write", "orders")>>

RECURSIVE PickSeq(_, _)
\* the scope string naming the scopes ScopeOrder[i], i \in S, in order
PickSeq(S, i) ==
    IF i > Len(ScopeOrder) THEN <<>>
    ELSE IF i \in S THEN <<ScopeOrder[i]>> \o PickSeq(S, i + 1)
    ELSE PickSeq(S, i + 1)

\* the scope strings a create request may carry ("" is the empty sequence)
ScopeStrings ==
    {PickSeq(S, 1) : S \in {T \in SUBSET (1..Len(ScopeOrder)) : Cardinality(T) <= MaxScopeLen}}

\* the scope strings the platform grants at OAuth completion (tokenData.scope)
Grants == {<<Scope("read", "orders")>>,
           <<Scope("read", "orders"), Scope("write", "orders")>>}

\* str.split(',')
Split(str) == IF str = <<>> THEN <<EmptyTok>> ELSE str
\* arr.includes(x)
Includes(arr, x) == \E i \in 1..Len(arr) : arr[i] = x
\* the set of scopes an array holds
ScopeSet(arr) == {arr[i] : i \in 1..Len(arr)}

Names == {"", "Portal A"}

\* ------------------------------------------------------------------ crypto
\* generateApiKey: `sk_` followed by 32 random bytes; n is the draw
generateApiKey(n) == [sk |-> n]
\* generateApiSecret: 48 random bytes; n is the draw
generateApiSecret(n) == [secret |-> n]
\* hashApiKey: HMAC-SHA256 of the key under the encryption secret
hashApiKey(apiKey) == [hmac |-> apiKey]
\* encrypt / decrypt: AES-256-CBC under the encryption secret
encrypt(text) == [enc |-> text]
decrypt(text) == text.enc

\* header values a client can present
MissingKey == generateApiKey(-1)
UnknownKey == generateApiKey(0)
MissingSecret == generateApiSecret(-1)
BogusSecret == generateApiSecret(0)
\* the X-API-Key / X-API-Secret pairs a client presents: an issued key with
\* the secret issued with it, with another secret or with none; a key that
\* was never issued; no key
Presented ==
    UNION {{<<generateApiKey(n), generateApiSecret(n)>>,
            <<generateApiKey(n), BogusSecret>>,
            <<generateApiKey(n), MissingSecret>>} : n \in 1..MaxKeys}
    \cup {<<UnknownKey, BogusSecret>>, <<MissingKey, BogusSecret>>}

\* the access token the platform issues to the app for a shop
PlatformToken(shop) == [shpat |-> shop]
NoToken == [shpat |-> NoShop]

\* the address of the client (req.ip) as the string keyGenerator returns; a
\* client can present any string as its X-API-Key, this one included
ClientIp == generateApiKey(-2)
Addresses == {ClientIp}
\* the keys apiLimiter counts under
LimiterKeys == {generateApiKey(n) : n \in 0..MaxKeys} \cup Addresses
\* max of apiLimiter
Max == 100

\* ---------------------------------------------------------------- platform
\* the app's shared secret with the platform (config.shopify.apiSecret)
ApiSecret == "SHOPIFY_API_SECRET"
\* crypto.createHmac('sha256', key).update(msg).digest(...)
Hmac(key, msg) == [key |-> key, msg |-> msg]
MissingHmac == Hmac("", "")
\* a request without a body, and req.rawBody when express.json never set it
NoBody == ""
Undefined == "undefined"
\* a JSON body holding the character U+FFFD (bytes EF BF BD), and the body
\* that has the single byte FF, which is not valid UTF-8, in its place
BodyReplacementChar == "{\"id\":\"\\uFFFD\"}"
BodyInvalidByte == "{\"id\":\"\\xFF\"}"
\* request bodies of a platform request, as the bytes received
Bodies == {"{\"id\":1}", "{\"id\":2}", BodyReplacementChar, BodyInvalidByte, NoBody}
\* X-Shopify-Hmac-SHA256 values: the platform's MAC of a body, a MAC under a
\* key that is not the shared secret, or no header
PresentedHmacs ==
    {Hmac(ApiSecret, "{\"id\":1}"), Hmac(ApiSecret, BodyReplacementChar),
     Hmac(ApiSecret, BodyInvalidByte), Hmac("guess", "{\"id\":1}"), MissingHmac}
\* the outcome of verifyWebhookMiddleware when it throws
Throws == -1
\* the webhook routes: the uninstall route and one of the resource routes
WebhookRoutes == {"app-uninstalled", "orders-create"}

\* SQL NULL in an integer column
Null == 0

\* config.webhooks.topics
Topics == {"orders/create", "orders/updated"}

\* crypto.randomBytes(16).toString('hex'): the values generateNonce draws
NonceValues == {"n1", "n2"}
\* a state parameter that no GET /auth issued
ForgedState == "forged"
\* nonces.get(shop) of a shop without an entry; an entry is the value and
\* the minutes since nonces.set stored it
NoNonce == [value |-> "undefined", age |-> 0]
\* 5 * 60 * 1000 ms, in minutes
Expiry == 5

\* Authorization header of an admin request: none, a token jwt.verify
\* rejects, or the token issued for store n
NoSession == 0
BadSession == -1

VARIABLES
    stores,        \* rows of the stores table
    nextStoreId,   \* the SERIAL of stores.id
    api_keys,      \* rows of the api_keys table
    nextKeyId,     \* the SERIAL of api_keys.id
    webhooks,      \* rows of the webhooks table
    sync_logs,     \* rows of the sync_logs table
    nextLogId,     \* the SERIAL of sync_logs.id
    nonces,        \* the nonces Map of routes/auth.js: shop -> entry
    timers,        \* the pending setTimeout callbacks of GET /auth
    hits,          \* the store of apiLimiter: limiter key -> requests counted in its window
    req,           \* the /api request in flight between verifyApiKey and its handler
    resp           \* the response pending delivery

vars == <<stores, nextStoreId, api_keys, nextKeyId, webhooks, sync_logs, nextLogId,
          nonces, timers, hits, req, resp>>
dbVars == <<stores, nextStoreId, api_keys, nextKeyId, webhooks, sync_logs, nextLogId>>
logVars == <<sync_logs, nextLogId>>
oauthVars == <<nonces, timers>>

\* ------------------------------------------------------------------ records
NoReq ==
    [pc |-> "idle", apiKey |-> MissingKey, apiSecret |-> MissingSecret,
     apiKeyId |-> 0, storeId |-> 0, shopDomain |-> NoShop,
     accessToken |-> NoToken, scopes |-> <<>>]

NoRoute == [kind |-> "none", scope |-> EmptyTok, res |-> ""]

NoResp ==
    [route |-> "none", status |-> 0, error |-> "",
     \* the statement that threw, for a response sent from a catch block
     fault |-> "none",
     \* the outcome of the handler's upstream call and of its logSync call,
     \* "none" when it made none
     upstream |-> "none", log |-> "none",
     \* /api
     apiKey |-> MissingKey, apiSecret |-> MissingSecret, apiRoute |-> NoRoute,
     fields |-> {}, requiredScope |-> EmptyTok, yourScopes |-> <<>>,
     upShop |-> NoShop, upToken |-> NoToken,
     \* the sync_logs rows read by GET /api/logs and GET /api/stats
     rows |-> {},
     \* admin
     session |-> 0, name |-> "", scopes |-> <<>>, keyId |-> 0,
     \* platform
     shop |-> NoShop, hmac |-> MissingHmac, body |-> NoBody, rawBody |-> Undefined,
     state |-> "", registered |-> {}]

Init ==
    /\ stores = {}
    /\ nextStoreId = 1
    /\ api_keys = {}
    /\ nextKeyId = 1
    /\ webhooks = {}
    /\ sync_logs = {}
    /\ nextLogId = 1
    /\ nonces = [shop \in Shops |-> NoNonce]
    /\ timers = {}
    /\ hits = [key \in LimiterKeys |-> 0]
    /\ req = NoReq
    /\ resp = NoResp

\* --------------------------------------------------------------- the stores
\* upsertStore whose DO UPDATE does not set is_active = true
upsertStore_KeepsInactive(shopDomain, accessToken, scopes) ==
    IF \E s \in stores : s.shop_domain = shopDomain
    THEN /\ stores' = {IF s.shop_domain = shopDomain
                       THEN [s EXCEPT !.access_token = encrypt(accessToken),
                                      !.scopes = scopes]
                       ELSE s : s \in stores}
         /\ UNCHANGED nextStoreId
    ELSE /\ stores' = stores \cup
                {[id |-> nextStoreId, shop_domain |-> shopDomain,
                  access_token |-> encrypt(accessToken), scopes |-> scopes,
                  is_active |-> TRUE]}
         /\ nextStoreId' = nextStoreId + 1

\* StoreService.upsertStore: INSERT ... ON CONFLICT (shop_domain) DO UPDATE
upsertStore(shopDomain, accessToken, scopes) ==
    IF \E s \in stores : s.shop_domain = shopDomain
    THEN /\ stores' = {IF s.shop_domain = shopDomain
                       THEN [s EXCEPT !.access_token = encrypt(accessToken),
                                      !.scopes = scopes,
                                      !.is_active = TRUE]
                       ELSE s : s \in stores}
         /\ UNCHANGED nextStoreId
    ELSE /\ stores' = stores \cup
                {[id |-> nextStoreId, shop_domain |-> shopDomain,
                  access_token |-> encrypt(accessToken), scopes |-> scopes,
                  is_active |-> TRUE]}
         /\ nextStoreId' = nextStoreId + 1

\* StoreService.getStoreByDomain: the active rows with that domain
getStoreByDomain(shopDomain) ==
    {s \in stores : s.shop_domain = shopDomain /\ s.is_active}

\* getStoreById without the condition is_active = true
getStoreById_AnyStore(storeId) ==
    {s \in stores : s.id = storeId}

\* StoreService.getStoreById: the active rows with that id
getStoreById(storeId) ==
    {s \in stores : s.id = storeId /\ s.is_active}

\* StoreService.deactivateStore: UPDATE stores SET is_active = false
deactivateStore(shopDomain) ==
    stores' = {IF s.shop_domain = shopDomain
               THEN [s EXCEPT !.is_active = FALSE] ELSE s : s \in stores}

\* createApiKey whose generateApiKey returns the same key every time
createApiKey_SameKey(storeId, name, scopes) ==
    [id |-> nextKeyId, store_id |-> storeId,
     api_key |-> hashApiKey(generateApiKey(1)),
     api_secret |-> encrypt(generateApiSecret(nextKeyId)),
     name |-> name, scopes |-> scopes, is_active |-> TRUE, last_used_at |-> "NULL"]

\* ------------------------------------------------------------- the api keys
\* ApiKeyService.createApiKey: the row INSERT INTO api_keys stores; the key
\* and the secret are the draws numbered like the row
createApiKey(storeId, name, scopes) ==
    [id |-> nextKeyId, store_id |-> storeId,
     api_key |-> hashApiKey(generateApiKey(nextKeyId)),
     api_secret |-> encrypt(generateApiSecret(nextKeyId)),
     name |-> name, scopes |-> scopes, is_active |-> TRUE, last_used_at |-> "NULL"]

\* getApiKeyByKey without the condition s.is_active = true
getApiKeyByKey_AnyStore(apiKey) ==
    {[id |-> k.id, store_id |-> k.store_id, scopes |-> k.scopes,
      shop_domain |-> s.shop_domain, access_token |-> decrypt(s.access_token)] :
        <<k, s>> \in {<<k, s>> \in api_keys \X stores :
                        /\ k.store_id = s.id
                        /\ k.api_key = hashApiKey(apiKey)
                        /\ k.is_active}}

\* getApiKeyByKey selecting the scopes column of stores instead of api_keys
getApiKeyByKey_StoreScopes(apiKey) ==
    {[id |-> k.id, store_id |-> k.store_id, scopes |-> s.scopes,
      shop_domain |-> s.shop_domain, access_token |-> decrypt(s.access_token)] :
        <<k, s>> \in {<<k, s>> \in api_keys \X stores :
                        /\ k.store_id = s.id
                        /\ k.api_key = hashApiKey(apiKey)
                        /\ k.is_active
                        /\ s.is_active}}

\* getApiKeyByKey without the condition ak.is_active = true
getApiKeyByKey_AnyKey(apiKey) ==
    {[id |-> k.id, store_id |-> k.store_id, scopes |-> k.scopes,
      shop_domain |-> s.shop_domain, access_token |-> decrypt(s.access_token)] :
        <<k, s>> \in {<<k, s>> \in api_keys \X stores :
                        /\ k.store_id = s.id
                        /\ k.api_key = hashApiKey(apiKey)
                        /\ s.is_active}}

\* getApiKeyByKey clipping the credential's scopes to the scopes column of
\* the tenant
getApiKeyByKey_Clipped(apiKey) ==
    {[id |-> k.id, store_id |-> k.store_id,
      scopes |-> SelectSeq(k.scopes, LAMBDA sc : Includes(s.scopes, sc)),
      shop_domain |-> s.shop_domain, access_token |-> decrypt(s.access_token)] :
        <<k, s>> \in {<<k, s>> \in api_keys \X stores :
                        /\ k.store_id = s.id
                        /\ k.api_key = hashApiKey(apiKey)
                        /\ k.is_active
                        /\ s.is_active}}

\* ApiKeyService.getApiKeyByKey: the joined rows (ak.*, s.shop_domain,
\* s.access_token) with the token decrypted
getApiKeyByKey(apiKey) ==
    {[id |-> k.id, store_id |-> k.store_id, scopes |-> k.scopes,
      shop_domain |-> s.shop_domain, access_token |-> decrypt(s.access_token)] :
        <<k, s>> \in {<<k, s>> \in api_keys \X stores :
                        /\ k.store_id = s.id
                        /\ k.api_key = hashApiKey(apiKey)
                        /\ k.is_active
                        /\ s.is_active}}

\* ApiKeyService.updateLastUsed
updateLastUsed(apiKeyId) ==
    {IF k.id = apiKeyId THEN [k EXCEPT !.last_used_at = "CURRENT_TIMESTAMP"] ELSE k :
        k \in api_keys}

\* deleteApiKey without the condition store_id = $2
deleteApiKey_ById(apiKeyId, storeId) ==
    {k \in api_keys : k.id # apiKeyId}

\* ApiKeyService.deleteApiKey: the rows that remain
deleteApiKey(apiKeyId, storeId) ==
    {k \in api_keys : ~(k.id = apiKeyId /\ k.store_id = storeId)}

\* ApiKeyService.deactivateApiKey (no route calls it)
deactivateApiKey(apiKeyId, storeId) ==
    /\ resp = NoResp
    /\ api_keys' = {IF k.id = apiKeyId /\ k.store_id = storeId
                    THEN [k EXCEPT !.is_active = FALSE] ELSE k : k \in api_keys}
    /\ api_keys' # api_keys
    /\ UNCHANGED <<stores, nextStoreId, nextKeyId, webhooks, logVars, oauthVars, hits, req, resp>>

\* sync_logs.api_key_id REFERENCES api_keys(id) ON DELETE SET NULL: the rows
\* of sync_logs once the api_keys rows with these ids are deleted
onDeleteSetNull(apiKeyIds) ==
    {IF l.api_key_id \in apiKeyIds THEN [l EXCEPT !.api_key_id = Null] ELSE l :
        l \in sync_logs}

\* the bearer tokens in circulation: /auth/callback signs one per install,
\* carrying the id of the store row
Sessions == {s.id : s \in stores} \cup {NoSession, BadSession}

\* the checks of POST /api/admin/api-keys without the one on scopes
validateCreate_NoScopesCheck(token, name, scopes) ==
    IF token = NoSession THEN "Unauthorized"
    ELSE IF name = "" THEN "Name is required"
    ELSE ""

\* POST /api/admin/api-keys, the checks ahead of the try block: the error
\* the request is rejected with, "" when it passes
validateCreate(token, name, scopes) ==
    IF token = NoSession THEN "Unauthorized"
    ELSE IF name = "" THEN "Name is required"
    ELSE IF scopes = <<>> THEN "Scopes are required"
    ELSE ""

\* POST /api/admin/api-keys.  insertOk: the INSERT of createApiKey succeeds.
AdminCreateApiKey(token, name, scopes, insertOk) ==
    /\ resp = NoResp
    /\ LET r == [NoResp EXCEPT !.route = "admin.create", !.session = token,
                               !.name = name, !.scopes = scopes]
           invalid == validateCreate(token, name, scopes)
       IN IF invalid # ""
          THEN /\ resp' = [r EXCEPT !.status = IF invalid = "Unauthorized" THEN 401 ELSE 400,
                                    !.error = invalid]
               /\ UNCHANGED <<api_keys, nextKeyId>>
          ELSE IF token = BadSession
          THEN /\ resp' = [r EXCEPT !.status = 500, !.error = "Failed to create API key"]
               /\ UNCHANGED <<api_keys, nextKeyId>>
          ELSE IF getStoreById(token) = {}
          THEN /\ resp' = [r EXCEPT !.status = 404, !.error = "Store not found"]
               /\ UNCHANGED <<api_keys, nextKeyId>>
          ELSE IF ~insertOk
          THEN /\ resp' = [r EXCEPT !.status = 500, !.error = "Failed to create API key"]
               /\ UNCHANGED <<api_keys, nextKeyId>>
          ELSE /\ nextKeyId <= MaxKeys
               /\ \E store \in getStoreById(token) :
                     api_keys' = api_keys \cup
                         {createApiKey(store.id, name,
                                       IF scopes # <<>> THEN scopes ELSE store.scopes)}
               /\ nextKeyId' = nextKeyId + 1
               /\ resp' = [r EXCEPT !.status = 200, !.keyId = nextKeyId,
                                    !.apiKey = generateApiKey(nextKeyId),
                                    !.apiSecret = generateApiSecret(nextKeyId)]
    /\ UNCHANGED <<stores, nextStoreId, webhooks, logVars, oauthVars, hits, req>>

\* DELETE /api/admin/api-keys/:id
AdminDeleteApiKey(token, id) ==
    /\ resp = NoResp
    /\ LET r == [NoResp EXCEPT !.route = "admin.delete", !.session = token, !.keyId = id]
       IN IF token = NoSession
          THEN /\ resp' = [r EXCEPT !.status = 401, !.error = "Unauthorized"]
               /\ UNCHANGED <<api_keys, sync_logs>>
          ELSE IF token = BadSession
          THEN /\ resp' = [r EXCEPT !.status = 500, !.error = "Failed to delete API key"]
               /\ UNCHANGED <<api_keys, sync_logs>>
          ELSE /\ api_keys' = deleteApiKey(id, token)
               /\ sync_logs' = onDeleteSetNull({k.id : k \in api_keys \ api_keys'})
               /\ resp' = IF api_keys' = api_keys
                          THEN [r EXCEPT !.status = 404, !.error = "API key not found"]
                          ELSE [r EXCEPT !.status = 200]
    /\ UNCHANGED <<stores, nextStoreId, nextKeyId, webhooks, nextLogId, oauthVars, hits, req>>

\* ------------------------------------------------------- the /api pipeline
\* the statements of verifyApiKey's try block that can throw: the SELECT of
\* getApiKeyByKey, its decrypt of the stored access token, and the UPDATE of
\* updateLastUsed
Faults == {"none", "select", "decrypt", "update"}

\* verifyApiKey, run by router.use on every /api route.  fault: the
\* statement that throws, if any.
verifyApiKey(apiKey, apiSecret, fault) ==
    /\ resp = NoResp
    /\ req.pc = "idle"
    /\ LET r == [NoResp EXCEPT !.route = "api", !.apiKey = apiKey, !.apiSecret = apiSecret]
           keyData == getApiKeyByKey(apiKey)
       IN IF apiKey = MissingKey \/ apiSecret = MissingSecret
          THEN /\ resp' = [r EXCEPT !.status = 401, !.error = "Missing API credentials"]
               /\ UNCHANGED <<api_keys, req>>
          ELSE IF fault = "select"
          THEN /\ resp' = [r EXCEPT !.status = 500, !.error = "Authentication failed",
                                    !.fault = fault]
               /\ UNCHANGED <<api_keys, req>>
          ELSE IF keyData = {}
          THEN /\ resp' = [r EXCEPT !.status = 401, !.error = "Invalid API key"]
               /\ UNCHANGED <<api_keys, req>>
          ELSE IF fault # "none"
          THEN /\ resp' = [r EXCEPT !.status = 500, !.error = "Authentication failed",
                                    !.fault = fault]
               /\ UNCHANGED <<api_keys, req>>
          ELSE \E kd \in keyData :
               /\ api_keys' = updateLastUsed(kd.id)
               /\ req' = [pc |-> "resolved", apiKey |-> apiKey, apiSecret |-> apiSecret,
                          apiKeyId |-> kd.id, storeId |-> kd.store_id,
                          shopDomain |-> kd.shop_domain,
                          accessToken |-> kd.access_token,
                          scopes |-> Split(kd.scopes)]
               /\ UNCHANGED resp
    /\ UNCHANGED <<stores, nextStoreId, nextKeyId, webhooks, logVars, oauthVars>>

\* keyGenerator of apiLimiter: req.headers['x-api-key'] || req.ip
keyGenerator_Ip(apiKey, ip) == ip

keyGenerator(apiKey, ip) == IF apiKey = MissingKey THEN ip ELSE apiKey

\* the store of apiLimiter after a request counted under key; windowEnds:
\* the window of the key ends after this request and before the next one
increment(key, windowEnds) ==
    [hits EXCEPT ![key] = IF windowEnds THEN 0 ELSE @ + 1]

\* the window of a limiter key ends: its count starts again
resetKey(key) ==
    /\ hits[key] > 0
    /\ hits' = [hits EXCEPT ![key] = 0]
    /\ UNCHANGED <<dbVars, oauthVars, req, resp>>

\* message of apiLimiter
TooManyRequests == "Too many requests from this API key, please try again later"

\* a request to an /api route other than /api/health: router.use(apiLimiter),
\* then router.use(verifyApiKey)
ApiRequest(ip, apiKey, apiSecret, fault, windowEnds) ==
    /\ resp = NoResp
    /\ req.pc = "idle"
    /\ LET key == keyGenerator(apiKey, ip)
           totalHits == hits[key] + 1
       IN /\ totalHits <= Max + MaxExcess
          /\ hits' = increment(key, windowEnds)
          /\ IF totalHits > Max
             THEN /\ resp' = [NoResp EXCEPT !.route = "api", !.apiKey = apiKey,
                                            !.apiSecret = apiSecret, !.status = 429,
                                            !.error = TooManyRequests]
                  /\ UNCHANGED <<dbVars, oauthVars, req>>
             ELSE verifyApiKey(apiKey, apiSecret, fault)

\* GET /api/health: router.use(apiLimiter), then the health handler
ApiHealth(ip, apiKey, windowEnds) ==
    /\ resp = NoResp
    /\ req.pc = "idle"
    /\ LET key == keyGenerator(apiKey, ip)
           totalHits == hits[key] + 1
       IN /\ totalHits <= Max + MaxExcess
          /\ hits' = increment(key, windowEnds)
          /\ resp' = [NoResp EXCEPT !.route = "api.health", !.apiKey = apiKey,
                                    !.status = IF totalHits > Max THEN 429 ELSE 200,
                                    !.error = IF totalHits > Max THEN TooManyRequests
                                              ELSE ""]
    /\ UNCHANGED <<dbVars, oauthVars, req>>

\* the /api routes that check a scope: the routes guarded by
\* requireScope(scope) and the /v1/:resource routes
ApiRoutes ==
    {[kind |-> "requireScope", scope |-> sc, res |-> sc.res] : sc \in Scopes}
    \cup {[kind |-> k, scope |-> EmptyTok, res |-> r] :
            k \in {"v1.get", "v1.post", "v1.put", "v1.delete"}, r \in Resources}

\* the /api routes that check no scope: GET /test-connection calls the
\* platform, GET /logs and GET /stats read sync_logs
OpenRoutes ==
    {[kind |-> k, scope |-> EmptyTok, res |-> ""] : k \in {"test-connection", "logs", "stats"}}

\* a ShopifyAPI that has createResource, updateResource and deleteResource
definesMethod_All(route) == TRUE

\* whether class ShopifyAPI defines the method the handler of the route
\* calls: createResource, updateResource and deleteResource, called by
\* POST, PUT and DELETE /v1/:resource, are defined nowhere, so the call
\* throws a TypeError inside the handler's try block
definesMethod(route) == route.kind \notin {"v1.post", "v1.put", "v1.delete"}

\* whether the handler of the route sends a request to the platform
callsUpstream(route) == route.kind \notin {"logs", "stats"} /\ definesMethod(route)

\* scope.replace('read_', 'write_')
replaceReadWrite(scope) == IF scope.cls = "read" THEN [scope EXCEPT !.cls = "write"] ELSE scope

\* requireScope with the relaxation applied in both directions
requireScope_BothWays(scope, scopes) ==
    \/ Includes(scopes, scope)
    \/ Includes(scopes, [scope EXCEPT !.cls = IF scope.cls = "read" THEN "write" ELSE "read"])

\* requireScope(scope): TRUE when the middleware calls next()
requireScope(scope, scopes) ==
    \/ Includes(scopes, scope)
    \/ /\ scope.cls = "read"
       /\ Includes(scopes, replaceReadWrite(scope))

\* the scope a route requires: the argument of requireScope, scopeMap[resource]
\* || `read_${resource}` on GET /v1/:resource, `write_${resource}` on the
\* other /v1 routes
requiredScope(route) ==
    IF route.kind = "requireScope" THEN route.scope
    ELSE IF route.kind = "v1.get" THEN Scope("read", route.res)
    ELSE Scope("write", route.res)

\* a handler that goes on without the permission check
hasPermission_Always(route, scopes) == TRUE

\* the permission check of a route: TRUE when the request goes on
hasPermission(route, scopes) ==
    IF route \in OpenRoutes THEN TRUE
    ELSE IF route.kind = "requireScope" THEN requireScope(route.scope, scopes)
    ELSE IF route.kind = "v1.get"
    THEN \/ Includes(scopes, requiredScope(route))
         \/ Includes(scopes, replaceReadWrite(requiredScope(route)))
    ELSE Includes(scopes, requiredScope(route))

\* the keys of the 403 body that describe the scopes
forbiddenFields(route) ==
    IF route.kind \in {"requireScope", "v1.get"}
    THEN {"requiredScope", "yourScopes"}
    ELSE {"requiredScope"}

\* SyncLogService.logSync: the row INSERT INTO sync_logs stores
logSync(storeId, apiKeyId, action, resourceType, status) ==
    [id |-> nextLogId, store_id |-> storeId, api_key_id |-> apiKeyId,
     action |-> action, resource_type |-> resourceType, status |-> status]

\* getLogsByStore without its WHERE clause
getLogsByStore_All(storeId) == sync_logs

\* SyncLogService.getLogsByStore and getActivitySummary: the rows WHERE
\* store_id = $1
getLogsByStore(storeId) == {l \in sync_logs : l.store_id = storeId}

\* logOperation with its try/catch removed: it throws when logSync does
logOperationThrows_NoCatch(logOk) == ~logOk

\* logOperation (routes/api.js): TRUE when the call throws to its caller.
\* logOk: the INSERT of logSync succeeds.  The catch block swallows the error.
logOperationThrows(logOk) == FALSE

\* whether the handler of a route calls logOperation: the requireScope
\* routes in the try block and in the catch block, POST, PUT and DELETE
\* /v1/:resource at the end of the try block only, GET /v1/:resource never
callsLogOperation(route, upstreamOk) ==
    IF route.kind = "requireScope" THEN TRUE
    ELSE IF route.kind = "v1.get" \/ route \in OpenRoutes THEN FALSE
    ELSE definesMethod(route) /\ upstreamOk

\* the action argument of the route's logOperation call
logAction(route) ==
    IF route.kind = "requireScope"
    THEN (IF route.scope.cls = "read" THEN "READ" ELSE "UPDATE")
    ELSE IF route.kind = "v1.post" THEN "CREATE"
    ELSE IF route.kind = "v1.put" THEN "UPDATE"
    ELSE "DELETE"

\* the resourceType argument: a literal ('order') on the requireScope
\* routes, req.params.resource on the /v1 routes
logResourceType(route) ==
    IF route.kind = "requireScope" THEN "order" ELSE route.res

\* the handler of an /api route, from the permission check to the response.
\* upstreamOk: the call to the platform API (the SELECT, on /logs and
\* /stats) succeeds; logOk: the INSERT of logSync succeeds.
ApiHandle(route, upstreamOk, logOk) ==
    /\ resp = NoResp
    /\ req.pc = "resolved"
    /\ LET r == [NoResp EXCEPT !.route = "api", !.apiRoute = route,
                               !.keyId = req.apiKeyId, !.session = req.storeId,
                               !.scopes = req.scopes]
           logs == callsLogOperation(route, upstreamOk)
           failed == \/ ~definesMethod(route)
                     \/ ~upstreamOk
                     \/ (logs /\ logOperationThrows(logOk))
       IN IF ~hasPermission(route, req.scopes)
          THEN /\ resp' = [r EXCEPT !.status = 403, !.error = "Insufficient permissions",
                                    !.fields = forbiddenFields(route),
                                    !.requiredScope = requiredScope(route),
                                    !.yourScopes = IF "yourScopes" \in forbiddenFields(route)
                                                   THEN req.scopes ELSE <<>>]
               /\ UNCHANGED logVars
          ELSE /\ resp' = [r EXCEPT !.status = IF failed THEN 500
                                               ELSE IF route.kind = "v1.post" THEN 201
                                               ELSE 200,
                                    !.error = IF failed THEN "Failed" ELSE "",
                                    !.upShop = IF callsUpstream(route)
                                               THEN req.shopDomain ELSE NoShop,
                                    !.upToken = IF callsUpstream(route)
                                                THEN req.accessToken ELSE NoToken,
                                    !.upstream = IF ~callsUpstream(route) THEN "none"
                                                 ELSE IF upstreamOk THEN "ok" ELSE "failed",
                                    !.rows = IF route.kind \in {"logs", "stats"} /\ upstreamOk
                                             THEN getLogsByStore(req.storeId)
                                             ELSE {},
                                    !.log = IF ~logs THEN "none"
                                            ELSE IF logOk THEN "ok" ELSE "failed"]
               /\ IF logs /\ logOk
                  THEN /\ nextLogId <= MaxLogs
                       /\ sync_logs' = sync_logs \cup
                             {logSync(req.storeId, req.apiKeyId, logAction(route),
                                      logResourceType(route),
                                      IF upstreamOk THEN "success" ELSE "error")}
                       /\ nextLogId' = nextLogId + 1
                  ELSE UNCHANGED logVars
    /\ req' = NoReq
    /\ UNCHANGED <<stores, nextStoreId, api_keys, nextKeyId, webhooks, oauthVars, hits>>

\* ---------------------------------------------------- platform-initiated
\* GET /auth without its setTimeout call
scheduleExpiry_Never(shop) == timers

\* setTimeout(() => nonces.delete(shop), 5 * 60 * 1000): the pending timers
scheduleExpiry(shop) == timers \cup {[shop |-> shop, left |-> Expiry]}

\* GET /auth.  nonce: the value generateNonce draws.
AuthStart(shop, nonce) ==
    /\ resp = NoResp
    /\ LET r == [NoResp EXCEPT !.route = "auth", !.shop = shop]
       IN IF shop = NoShop
          THEN /\ resp' = [r EXCEPT !.status = 400, !.error = "Missing shop parameter"]
               /\ UNCHANGED oauthVars
          ELSE IF shop \notin Shops
          THEN /\ resp' = [r EXCEPT !.status = 400, !.error = "Invalid shop domain"]
               /\ UNCHANGED oauthVars
          ELSE /\ nonces' = [nonces EXCEPT ![shop] = [value |-> nonce, age |-> 0]]
               /\ timers' = scheduleExpiry(shop)
               /\ resp' = [r EXCEPT !.status = 302, !.state = nonce]
    /\ UNCHANGED <<dbVars, hits, req>>

\* the callback of setTimeout(() => nonces.delete(shop), 5 * 60 * 1000)
TimerFire(timer) ==
    /\ resp = NoResp
    /\ timer \in timers
    /\ timer.left = 0
    /\ nonces' = [nonces EXCEPT ![timer.shop] = NoNonce]
    /\ timers' = timers \ {timer}
    /\ UNCHANGED <<dbVars, hits, req, resp>>

\* one minute passes; a timer that is due fires before the next minute
Tick ==
    /\ resp = NoResp
    /\ timers # {} \/ \E shop \in Shops : nonces[shop] # NoNonce
    /\ \A timer \in timers : timer.left > 0
    /\ timers' = {[timer EXCEPT !.left = @ - 1] : timer \in timers}
    /\ nonces' = [shop \in Shops |->
                    IF nonces[shop] = NoNonce \/ nonces[shop].age > Expiry
                    THEN nonces[shop]
                    ELSE [nonces[shop] EXCEPT !.age = @ + 1]]
    /\ UNCHANGED <<dbVars, hits, req, resp>>

\* stores.id of the row upsertStore returns for a domain
upsertedId(shopDomain) ==
    IF \E s \in stores : s.shop_domain = shopDomain
    THEN (CHOOSE s \in stores : s.shop_domain = shopDomain).id
    ELSE nextStoreId

\* WebhookService.registerWebhooks: saveWebhook for every topic whose
\* createWebhook call returned a webhook (INSERT ... ON CONFLICT (store_id,
\* topic) DO UPDATE); the failures are caught per topic
registerWebhooks(storeId, registered) ==
    webhooks' = webhooks \cup {[store_id |-> storeId, topic |-> topic] : topic \in registered}

\* WebhookService.unregisterWebhooks: deleteAllWebhooks runs when getWebhooks
\* returned; when it throws, the catch block leaves the rows
unregisterWebhooks(storeId, upstreamOk) ==
    webhooks' = IF upstreamOk THEN {w \in webhooks : w.store_id # storeId} ELSE webhooks

\* registerWebhooks letting the error of a failed topic through
registerWebhooksThrows_NoCatch(registered) == registered # Topics

\* registerWebhooks: TRUE when the call throws to its caller.  The try/catch
\* inside the loop swallows the error of each topic.
registerWebhooksThrows(registered) == FALSE

\* GET /auth/callback without nonces.delete(shop)
consumeNonce_Keep(shop) == nonces

\* GET /auth/callback, nonces.delete(shop): the map afterwards
consumeNonce(shop) == [nonces EXCEPT ![shop] = NoNonce]

\* the message verifyShopifyRequest signs: the query parameters other than
\* hmac, sorted and joined
queryMessage(shop, state) == "shop=" \o shop \o "&state=" \o state

\* the hmac parameter of a callback query: the platform's MAC of the query,
\* or the MAC of a sender that does not hold the secret
queryHmac(shop, state, hmacOk) ==
    Hmac(IF hmacOk THEN ApiSecret ELSE "guess", queryMessage(shop, state))

\* verifyHmac that lets every query through
verifyShopifyRequest_Any(shop, state, hmac) == TRUE

\* verifyShopifyRequest(req.query): hash === hmac
verifyShopifyRequest(shop, state, hmac) == hmac = Hmac(ApiSecret, queryMessage(shop, state))

\* GET /auth/callback: verifyHmac, the state check, the code-for-token
\* exchange, upsertStore, registerWebhooks and the session token.  hmacOk:
\* the query MAC verifies; exchangeOk: getAccessToken returns; registered:
\* the topics whose createWebhook call succeeds.
OAuthCallback(shop, hmacOk, state, exchangeOk, grant, registered) ==
    /\ resp = NoResp
    /\ LET hmac == queryHmac(shop, state, hmacOk)
           r == [NoResp EXCEPT !.route = "auth.callback", !.shop = shop, !.state = state,
                               !.hmac = hmac]
       IN IF ~verifyShopifyRequest(shop, state, hmac)
          THEN /\ resp' = [r EXCEPT !.status = 403, !.error = "Invalid HMAC signature"]
               /\ UNCHANGED <<stores, nextStoreId, webhooks, nonces>>
          ELSE IF nonces[shop] = NoNonce \/ nonces[shop].value # state
          THEN /\ resp' = [r EXCEPT !.status = 403, !.error = "Invalid state parameter"]
               /\ UNCHANGED <<stores, nextStoreId, webhooks, nonces>>
          ELSE IF ~exchangeOk
          THEN /\ nonces' = consumeNonce(shop)
               /\ resp' = [r EXCEPT !.status = 500, !.error = "Authentication failed",
                                    !.upstream = "failed"]
               /\ UNCHANGED <<stores, nextStoreId, webhooks>>
          ELSE /\ nonces' = consumeNonce(shop)
               /\ upsertStore(shop, PlatformToken(shop), grant)
               /\ registerWebhooks(upsertedId(shop), registered)
               /\ resp' = IF registerWebhooksThrows(registered)
                          THEN [r EXCEPT !.status = 500, !.error = "Authentication failed",
                                         !.upstream = "ok", !.registered = registered]
                          ELSE [r EXCEPT !.status = 302, !.scopes = grant,
                                         !.session = upsertedId(shop),
                                         !.upstream = "ok", !.registered = registered]
    /\ UNCHANGED <<api_keys, nextKeyId, logVars, timers, hits, req>>

\* the verify callback of express.json, req.rawBody = buf.toString('utf8'):
\* a byte that is not valid UTF-8 decodes to U+FFFD, so the body with the
\* invalid byte decodes to the string of the body that has U+FFFD in its
\* place; express.json does not call verify for a request without a body
toStringUtf8(buf) ==
    IF buf = NoBody THEN Undefined
    ELSE IF buf = BodyInvalidByte THEN BodyReplacementChar
    ELSE buf

\* POST /auth/uninstall.  unregisterOk: getWebhooks of unregisterWebhooks
\* returns.
AuthUninstall(shop, hmac, body, unregisterOk) ==
    /\ resp = NoResp
    /\ LET r == [NoResp EXCEPT !.route = "auth.uninstall", !.shop = shop,
                               !.hmac = hmac, !.body = body,
                               !.rawBody = toStringUtf8(body)]
       IN IF shop = NoShop
          THEN /\ resp' = [r EXCEPT !.status = 400, !.error = "Missing shop domain"]
               /\ UNCHANGED <<stores, webhooks>>
          ELSE IF getStoreByDomain(shop) # {}
          THEN /\ \E store \in getStoreByDomain(shop) :
                     unregisterWebhooks(store.id, unregisterOk)
               /\ deactivateStore(shop)
               /\ resp' = [r EXCEPT !.status = 200,
                                    !.upstream = IF unregisterOk THEN "ok" ELSE "failed"]
          ELSE /\ resp' = [r EXCEPT !.status = 200]
               /\ UNCHANGED <<stores, webhooks>>
    /\ UNCHANGED <<nextStoreId, api_keys, nextKeyId, logVars, oauthVars, hits, req>>

\* verifyWebhookMiddleware: the status it ends the request with, 0 when it
\* calls next(), Throws when hmac.update(req.rawBody) throws
verifyWebhookMiddleware(shop, hmac, rawBody) ==
    IF hmac = MissingHmac \/ shop = NoShop THEN 401
    ELSE IF rawBody = Undefined THEN Throws
    ELSE IF Hmac(ApiSecret, rawBody) # hmac THEN 401
    ELSE IF getStoreByDomain(shop) = {} THEN 404
    ELSE 0

\* logWebhookEvent: TRUE when the call throws to its caller (its catch
\* block swallows the error of logSync)
logWebhookEventThrows(logOk) == FALSE

\* POST /webhooks/<route>: express.json, verifyWebhookMiddleware, then the
\* route's handler.  logOk: the INSERT of logSync succeeds.
Webhook(route, shop, hmac, body, logOk) ==
    /\ resp = NoResp
    /\ LET r == [NoResp EXCEPT !.route = "webhooks." \o route, !.shop = shop,
                               !.hmac = hmac, !.body = body,
                               !.rawBody = toStringUtf8(body)]
           rejected == verifyWebhookMiddleware(shop, hmac, toStringUtf8(body))
       IN IF rejected = Throws
          THEN /\ resp' = [r EXCEPT !.error = "TypeError", !.fault = "hmac.update"]
               /\ UNCHANGED <<stores, logVars>>
          ELSE IF rejected # 0
          THEN /\ resp' = [r EXCEPT !.status = rejected,
                                    !.error = IF rejected = 404 THEN "Store not found"
                                              ELSE "Unauthorized"]
               /\ UNCHANGED <<stores, logVars>>
          ELSE IF route = "app-uninstalled"
          THEN /\ deactivateStore(shop)
               /\ resp' = [r EXCEPT !.status = 200]
               /\ UNCHANGED logVars
          ELSE /\ resp' = [r EXCEPT !.status = IF logWebhookEventThrows(logOk) THEN 500 ELSE 200,
                                    !.log = IF logOk THEN "ok" ELSE "failed"]
               /\ IF logOk
                  THEN /\ nextLogId <= MaxLogs
                       /\ \E store \in getStoreByDomain(shop) :
                             sync_logs' = sync_logs \cup
                                {logSync(store.id, Null, "WEBHOOK_CREATE", "orders", "received")}
                       /\ nextLogId' = nextLogId + 1
                  ELSE UNCHANGED logVars
               /\ UNCHANGED stores
    /\ UNCHANGED <<nextStoreId, api_keys, nextKeyId, webhooks, oauthVars, hits, req>>

Close ==
    /\ resp # NoResp
    /\ resp' = NoResp
    /\ UNCHANGED <<dbVars, oauthVars, hits, req>>

\* ---------------------------------------------------------- specifications
ValidHmac == Hmac(ApiSecret, "{\"id\":1}")
FullGrant == <<Scope("read", "orders"), Scope("write", "orders")>>
ValidSessions == {s.id : s \in stores}
FirstShop == "foo.myshopify.com"

InvalidShop == "evil.example.com"
ValidPairs == {<<generateApiKey(n), generateApiSecret(n)>> : n \in 1..MaxKeys}

\* The /api pipeline of one tenant under every presented key and secret and
\* every route, with the tenant installed and uninstalled and credentials
\* created and deleted by well-formed requests.  The platform rejects the
\* calls of unregisterWebhooks and the INSERT of logSync fails.
Next ==
    \/ AuthStart(FirstShop, "n1")
    \/ OAuthCallback(FirstShop, TRUE, "n1", TRUE, FullGrant, Topics)
    \/ AuthUninstall(FirstShop, ValidHmac, "{\"id\":1}", FALSE)
    \/ Webhook("app-uninstalled", FirstShop, ValidHmac, "{\"id\":1}", FALSE)
    \/ \E token \in ValidSessions, scopes \in ScopeStrings \ {<<>>} :
          AdminCreateApiKey(token, "Portal A", scopes, TRUE)
    \/ \E token \in ValidSessions, id \in 1..MaxKeys : AdminDeleteApiKey(token, id)
    \/ \E p \in Presented, fault \in Faults : ApiRequest(ClientIp, p[1], p[2], fault, TRUE)
    \/ \E route \in ApiRoutes \cup OpenRoutes, upstreamOk \in BOOLEAN :
          ApiHandle(route, upstreamOk, FALSE)
    \/ Close

Spec == Init /\ [][Next]_vars

\* The /api pipeline of one tenant whose credentials are also deactivated:
\* ApiKeyService.deactivateApiKey is exported by the service and called by
\* no route, so credentials are inactive only here.
NextService ==
    \/ AuthStart(FirstShop, "n1")
    \/ OAuthCallback(FirstShop, TRUE, "n1", TRUE, FullGrant, Topics)
    \/ Webhook("app-uninstalled", FirstShop, ValidHmac, "{\"id\":1}", FALSE)
    \/ \E token \in ValidSessions, scopes \in ScopeStrings \ {<<>>} :
          AdminCreateApiKey(token, "Portal A", scopes, TRUE)
    \/ \E id \in 1..MaxKeys, storeId \in ValidSessions : deactivateApiKey(id, storeId)
    \/ \E p \in Presented, fault \in Faults : ApiRequest(ClientIp, p[1], p[2], fault, TRUE)
    \/ \E route \in ApiRoutes : ApiHandle(route, TRUE, FALSE)
    \/ Close

SpecService == Init /\ [][NextService]_vars

\* The admin credential routes under every session, name and scope string,
\* with tenants installed with either grant and uninstalled.
NextAdmin ==
    \/ \E shop \in Shops : AuthStart(shop, "n1")
    \/ \E shop \in Shops, grant \in Grants :
          OAuthCallback(shop, TRUE, "n1", TRUE, grant, Topics)
    \/ \E shop \in Shops : Webhook("app-uninstalled", shop, ValidHmac, "{\"id\":1}", FALSE)
    \/ \E token \in Sessions, name \in Names, scopes \in ScopeStrings, insertOk \in BOOLEAN :
          AdminCreateApiKey(token, name, scopes, insertOk)
    \/ \E token \in Sessions, id \in 1..MaxKeys : AdminDeleteApiKey(token, id)
    \/ Close

SpecAdmin == Init /\ [][NextAdmin]_vars

\* The platform-initiated routes under every shop header, MAC and body.
NextPlatform ==
    \/ \E shop \in Shops \cup {NoShop, InvalidShop} : AuthStart(shop, "n1")
    \/ \E shop \in Shops, hmacOk \in BOOLEAN, state \in {"n1", ForgedState},
          exchangeOk \in BOOLEAN, grant \in Grants, registered \in {Topics, {}} :
          OAuthCallback(shop, hmacOk, state, exchangeOk, grant, registered)
    \/ \E shop \in Shops \cup {NoShop}, hmac \in PresentedHmacs, body \in Bodies,
          unregisterOk \in BOOLEAN :
          AuthUninstall(shop, hmac, body, unregisterOk)
    \/ \E route \in WebhookRoutes, shop \in Shops \cup {NoShop},
          hmac \in PresentedHmacs, body \in Bodies :
          Webhook(route, shop, hmac, body, FALSE)
    \/ Close

SpecPlatform == Init /\ [][NextPlatform]_vars

\* The OAuth flow of one shop under every nonce, state parameter and
\* exchange outcome, with the minutes passing and the timers firing.
NextOAuth ==
    \/ \E shop \in {FirstShop, NoShop, InvalidShop}, nonce \in NonceValues :
          AuthStart(shop, nonce)
    \/ \E hmacOk \in BOOLEAN, state \in NonceValues \cup {ForgedState},
          exchangeOk \in BOOLEAN :
          OAuthCallback(FirstShop, hmacOk, state, exchangeOk, FullGrant, Topics)
    \/ \E timer \in timers : TimerFire(timer)
    \/ Tick
    \/ Close

SpecOAuth == Init /\ [][NextOAuth]_vars

\* Install and uninstall of one tenant under every outcome of the platform
\* calls of registerWebhooks and unregisterWebhooks, with credentials of the
\* tenant created and used.
NextInstall ==
    \/ AuthStart(FirstShop, "n1")
    \/ \E exchangeOk \in BOOLEAN, registered \in SUBSET Topics :
          OAuthCallback(FirstShop, TRUE, "n1", exchangeOk, FullGrant, registered)
    \/ \E unregisterOk \in BOOLEAN :
          AuthUninstall(FirstShop, ValidHmac, "{\"id\":1}", unregisterOk)
    \/ Webhook("app-uninstalled", FirstShop, ValidHmac, "{\"id\":1}", FALSE)
    \/ \E token \in Sessions, scopes \in ScopeStrings \ {<<>>} :
          AdminCreateApiKey(token, "Portal A", scopes, TRUE)
    \/ \E p \in ValidPairs : ApiRequest(ClientIp, p[1], p[2], "none", TRUE)
    \/ \E route \in ApiRoutes : ApiHandle(route, TRUE, FALSE)
    \/ Close

SpecInstall == Init /\ [][NextInstall]_vars

\* The activity log of one tenant: every scope-checked route and the
\* webhook routes under every outcome of the upstream call and of the
\* INSERT of logSync, with credentials holding the write scope created and
\* deleted.
NextLog ==
    \/ AuthStart(FirstShop, "n1")
    \/ OAuthCallback(FirstShop, TRUE, "n1", TRUE, FullGrant, Topics)
    \/ \E route \in WebhookRoutes, logOk \in BOOLEAN :
          Webhook(route, FirstShop, ValidHmac, "{\"id\":1}", logOk)
    \/ \E token \in ValidSessions :
          AdminCreateApiKey(token, "Portal A", <<Scope("write", "orders")>>, TRUE)
    \/ \E token \in ValidSessions, id \in 1..MaxKeys : AdminDeleteApiKey(token, id)
    \/ \E p \in ValidPairs : ApiRequest(ClientIp, p[1], p[2], "none", TRUE)
    \/ \E route \in ApiRoutes, upstreamOk \in BOOLEAN, logOk \in BOOLEAN :
          ApiHandle(route, upstreamOk, logOk)
    \/ Close

SpecLog == Init /\ [][NextLog]_vars

\* The limiter of the /api routes: one installed tenant with one credential,
\* requests from one address with the credential's key, with the address
\* itself as the key and with no key, the windows ending at any time.
LimiterPresented ==
    {<<generateApiKey(1), generateApiSecret(1)>>, <<MissingKey, MissingSecret>>,
     <<ClientIp, BogusSecret>>}

NextLimiter ==
    \/ AuthStart(FirstShop, "n1")
    \/ OAuthCallback(FirstShop, TRUE, "n1", TRUE, FullGrant, Topics)
    \/ \E token \in ValidSessions :
          /\ nextKeyId = 1
          /\ AdminCreateApiKey(token, "Portal A", <<Scope("write", "orders")>>, TRUE)
    \/ \E p \in LimiterPresented, windowEnds \in BOOLEAN :
          ApiRequest(ClientIp, p[1], p[2], "none", windowEnds)
    \/ \E p \in LimiterPresented : ApiHealth(ClientIp, p[1], FALSE)
    \/ \E key \in LimiterKeys : resetKey(key)
    \/ ApiHandle([kind |-> "v1.get", scope |-> EmptyTok, res |-> "orders"], TRUE, FALSE)
    \/ Close

SpecLimiter == Init /\ [][NextLimiter]_vars

\* One tenant installed, uninstalled and installed again with either grant,
\* with credentials created under every scope string and used on every
\* scope-checked route.
NextReinstall ==
    \/ AuthStart(FirstShop, "n1")
    \/ \E grant \in Grants : OAuthCallback(FirstShop, TRUE, "n1", TRUE, grant, Topics)
    \/ Webhook("app-uninstalled", FirstShop, ValidHmac, "{\"id\":1}", FALSE)
    \/ \E token \in ValidSessions, scopes \in ScopeStrings \ {<<>>} :
          AdminCreateApiKey(token, "Portal A", scopes, TRUE)
    \/ \E p \in ValidPairs : ApiRequest(ClientIp, p[1], p[2], "none", TRUE)
    \/ \E route \in ApiRoutes : ApiHandle(route, TRUE, FALSE)
    \/ Close

SpecReinstall == Init /\ [][NextReinstall]_vars

\* One tenant installed, uninstalled and installed again, its credentials
\* created, deactivated, deleted and presented.
NextRevoke ==
    \/ AuthStart(FirstShop, "n1")
    \/ OAuthCallback(FirstShop, TRUE, "n1", TRUE, FullGrant, Topics)
    \/ Webhook("app-uninstalled", FirstShop, ValidHmac, "{\"id\":1}", FALSE)
    \/ \E token \in ValidSessions :
          AdminCreateApiKey(token, "Portal A", <<Scope("write", "orders")>>, TRUE)
    \/ \E token \in ValidSessions, id \in 1..MaxKeys : AdminDeleteApiKey(token, id)
    \/ \E id \in 1..MaxKeys, storeId \in ValidSessions : deactivateApiKey(id, storeId)
    \/ \E p \in ValidPairs : ApiRequest(ClientIp, p[1], p[2], "none", TRUE)
    \/ \E route \in ApiRoutes : ApiHandle(route, TRUE, FALSE)
    \/ Close

SpecRevoke == Init /\ [][NextRevoke]_vars

\* Two tenants, each with credentials holding the write scope, on a route
\* that calls the platform and logs, on GET /v1/:resource and on the routes
\* that check no scope.
TenantRoutes ==
    {[kind |-> "requireScope", scope |-> Scope("write", "orders"), res |-> "orders"],
     [kind |-> "v1.get", scope |-> EmptyTok, res |-> "orders"]} \cup OpenRoutes

NextTenants ==
    \/ \E shop \in Shops : AuthStart(shop, "n1")
    \/ \E shop \in Shops : OAuthCallback(shop, TRUE, "n1", TRUE, FullGrant, Topics)
    \/ \E token \in ValidSessions :
          AdminCreateApiKey(token, "Portal A", <<Scope("write", "orders")>>, TRUE)
    \/ \E p \in ValidPairs : ApiRequest(ClientIp, p[1], p[2], "none", TRUE)
    \/ \E route \in TenantRoutes : ApiHandle(route, TRUE, TRUE)
    \/ Close

SpecTenants == Init /\ [][NextTenants]_vars

\* ------------------------------------------------------------------ claims
\* C1: a request that presents the key of a stored credential together with
\* a secret other than the one stored for that key is rejected by
\* verifyApiKey and never goes on to a route handler.
C1_WrongSecretRejected ==
    [][\A k \in api_keys :
          (req.pc = "idle" /\ req'.pc = "resolved" /\ k.api_key = hashApiKey(req'.apiKey))
              => decrypt(k.api_secret) = req'.apiSecret]_vars

\* C2: while a tenant is inactive, a request that verifyApiKey starts on
\* with the key of one of that tenant's credentials is answered 401 and is
\* not resolved, so it never reaches the handler that answers 200.  (The
\* one other answer is the 500 of the catch block, when the SELECT of the
\* lookup itself throws.)
C2_InactiveTenantRejected ==
    [][\A k \in api_keys : \A s \in stores :
          (/\ req.pc = "idle" /\ resp = NoResp
           /\ k.store_id = s.id /\ ~s.is_active)
          => /\ ~(req'.pc = "resolved" /\ hashApiKey(req'.apiKey) = k.api_key)
             /\ (resp'.route = "api" /\ hashApiKey(resp'.apiKey) = k.api_key)
                    => resp'.status = 401 \/ resp'.fault = "select"]_vars

\* an active credential, presented with its own secret, is answered 401
\* because its tenant is inactive
C2_Witness ==
    /\ resp.route = "api" /\ resp.status = 401
    /\ \E k \in api_keys : \E s \in stores :
          /\ k.api_key = hashApiKey(resp.apiKey)
          /\ decrypt(k.api_secret) = resp.apiSecret
          /\ k.is_active /\ k.store_id = s.id /\ ~s.is_active

\* C3: on a scope-checked route a requirement read_X lets through exactly
\* the credentials holding read_X or write_X, and a requirement write_X
\* exactly the credentials holding write_X.
C3_ScopeRelaxationOneWay ==
    (resp.route = "api" /\ resp.apiRoute \in ApiRoutes) =>
        LET route == resp.apiRoute
            needsRead == \/ route.kind = "v1.get"
                         \/ route.kind = "requireScope" /\ route.scope.cls = "read"
            held == ScopeSet(resp.scopes)
            passed == resp.status # 403
        IN IF needsRead
           THEN passed <=> (Scope("read", route.res) \in held \/ Scope("write", route.res) \in held)
           ELSE passed <=> Scope("write", route.res) \in held

\* a credential holding read_X and not write_X is refused on a route that
\* requires write_X
C3_Witness ==
    /\ resp.route = "api" /\ resp.status = 403
    /\ resp.apiRoute.kind \in {"requireScope", "v1.put"}
    /\ resp.requiredScope.cls = "write"
    /\ Scope("read", resp.apiRoute.res) \in ScopeSet(resp.scopes)

\* C4: the pair a create request returns is the pair stored with the scopes
\* given in the request; no operation changes the key, secret, owner or
\* scopes of a stored credential; and while the credential and its tenant
\* are active, verifyApiKey resolves the pair to exactly the stored scope
\* set (or ends in the 500 of its catch block when a statement of the
\* lookup throws).
C4_IssuedPairResolves ==
    [][/\ (resp'.route = "admin.create" /\ resp'.status = 200) =>
              \E k \in api_keys' :
                  /\ k.id = resp'.keyId
                  /\ k.api_key = hashApiKey(resp'.apiKey)
                  /\ decrypt(k.api_secret) = resp'.apiSecret
                  /\ k.scopes = resp'.scopes
       /\ \A k \in api_keys : \A k2 \in api_keys' :
              k2.id = k.id =>
                  /\ k2.api_key = k.api_key /\ k2.api_secret = k.api_secret
                  /\ k2.store_id = k.store_id /\ k2.scopes = k.scopes
       /\ \A k \in api_keys : \A s \in stores :
              LET resolved == req'.pc = "resolved"
                  apiKey == IF resolved THEN req'.apiKey ELSE resp'.apiKey
                  apiSecret == IF resolved THEN req'.apiSecret ELSE resp'.apiSecret
              IN (/\ req.pc = "idle" /\ resp = NoResp
                  /\ (resolved \/ resp'.route = "api")
                  /\ k.api_key = hashApiKey(apiKey)
                  /\ decrypt(k.api_secret) = apiSecret
                  /\ k.is_active /\ k.store_id = s.id /\ s.is_active)
                 => \/ /\ resolved
                       /\ req'.apiKeyId = k.id
                       /\ ScopeSet(req'.scopes) = ScopeSet(k.scopes)
                    \/ resp'.fault # "none"]_vars

\* an issued pair is resolved to the scopes of its credential after another
\* credential was created
C4_Witness ==
    /\ req.pc = "resolved"
    /\ nextKeyId > 2
    /\ \E k \in api_keys :
          /\ k.id = req.apiKeyId
          /\ k.api_key = hashApiKey(req.apiKey)
          /\ decrypt(k.api_secret) = req.apiSecret
          /\ ScopeSet(req.scopes) = ScopeSet(k.scopes)

\* C5: a request to /webhooks/* or POST /auth/uninstall whose MAC header is
\* not the MAC of its body under the app secret changes no tenant row; in
\* particular it deactivates no tenant.
C5_MacBeforeTenantChange ==
    [][(/\ resp = NoResp
        /\ resp'.route \in {"auth.uninstall"} \cup {"webhooks." \o r : r \in WebhookRoutes}
        /\ Hmac(ApiSecret, resp'.rawBody) # resp'.hmac)
       => stores' = stores]_vars

\* C6: every credential row that POST /api/admin/api-keys inserts holds
\* only scopes that its tenant's row holds at that moment.
C6_ScopesWithinGrant ==
    [][\A k \in api_keys' \ api_keys : \E s \in stores :
          /\ s.id = k.store_id
          /\ ScopeSet(Split(k.scopes)) \subseteq ScopeSet(Split(s.scopes))]_vars

\* C7: a request with both headers present that fails credential resolution
\* because the key is not found, the credential or the tenant is inactive,
\* the secret is not the stored one or the stored token does not decrypt is
\* not resolved and is answered 401 "Invalid API key".
C7_UniformResolutionFailure ==
    [][(/\ req.pc = "idle" /\ resp = NoResp
        /\ (req'.pc = "resolved" \/ resp'.route = "api"))
       => LET resolved == req'.pc = "resolved"
              apiKey == IF resolved THEN req'.apiKey ELSE resp'.apiKey
              apiSecret == IF resolved THEN req'.apiSecret ELSE resp'.apiSecret
              valid == \E k \in api_keys : \E s \in stores :
                          /\ k.api_key = hashApiKey(apiKey)
                          /\ decrypt(k.api_secret) = apiSecret
                          /\ k.is_active /\ k.store_id = s.id /\ s.is_active
          IN (/\ apiKey # MissingKey /\ apiSecret # MissingSecret
              /\ resp'.fault \notin {"select", "update"}
              /\ (~valid \/ resp'.fault = "decrypt"))
             => /\ ~resolved
                /\ resp'.status = 401
                /\ resp'.error = "Invalid API key"]_vars

\* C8: every 403 of a scope-checked /api route carries the scope the route
\* requires and the scopes of the calling credential.
C8_ForbiddenNamesBothScopes ==
    (resp.route = "api" /\ resp.status = 403) =>
        /\ {"requiredScope", "yourScopes"} \subseteq resp.fields
        /\ resp.requiredScope = requiredScope(resp.apiRoute)
        /\ resp.yourScopes = resp.scopes

C10_DeleteScopedByTenant ==
    [][(/\ resp = NoResp /\ resp'.route = "admin.delete"
        /\ resp'.session \in {s.id : s \in stores})
       => LET owned == {k \in api_keys : k.id = resp'.keyId /\ k.store_id = resp'.session}
          IN /\ api_keys' = api_keys \ owned
             /\ owned = {} => (resp'.status = 404 /\ api_keys' = api_keys)
             /\ owned # {} => resp'.status = 200]_vars

\* the session of one tenant asks to delete a credential of another tenant
\* and is answered 404, the credential still stored
C10_Witness ==
    /\ resp.route = "admin.delete" /\ resp.status = 404
    /\ \E k \in api_keys : \E s \in stores :
          /\ k.id = resp.keyId
          /\ s.id = resp.session
          /\ k.store_id # s.id

\* C11: a verifyApiKey step in which the UPDATE of updateLastUsed throws
\* still resolves the request, which goes on to its handler; the middleware
\* sends no response for it.
C11_LastUsedFailureTolerated ==
    [][(req.pc = "idle" /\ resp = NoResp /\ resp'.fault = "update")
       => (req'.pc = "resolved" /\ resp' = NoResp)]_vars

\* C12: the response of a handler that calls logSync does not depend on
\* whether the INSERT succeeds: on the /api routes the status and error are
\* those the upstream call decides, on the webhook routes the status is 200.
C12_LogFailureKeepsOutcome ==
    resp.log # "none" =>
        IF resp.route = "api"
        THEN /\ resp.status = IF resp.upstream = "failed" THEN 500
                              ELSE IF resp.apiRoute.kind = "v1.post" THEN 201
                              ELSE 200
             /\ resp.error = IF resp.upstream = "failed" THEN "Failed" ELSE ""
        ELSE resp.status = 200 /\ resp.error = ""

\* an /api request whose upstream call succeeded is answered 200 although
\* the INSERT of its activity record failed
C12_Witness ==
    /\ resp.route = "api" /\ resp.log = "failed"
    /\ resp.upstream = "ok" /\ resp.status = 200
    /\ sync_logs = {}

\* C13: every handler step that passes the scope check and calls the
\* platform, and whose INSERT does not fail, adds a sync_logs row with the
\* request's tenant and credential, the route's action and resource type
\* and the outcome of the upstream call.
C13_ProxiedRequestsLogged ==
    [][(/\ req.pc = "resolved" /\ resp = NoResp
        /\ resp'.route = "api" /\ resp'.upstream # "none" /\ resp'.log # "failed")
       => \E l \in sync_logs' \ sync_logs :
             /\ l.store_id = req.storeId
             /\ l.api_key_id = req.apiKeyId
             /\ l.action \in {"READ", "CREATE", "UPDATE", "DELETE"}
             /\ l.resource_type \in {"order", resp'.apiRoute.res}
             /\ l.status = IF resp'.upstream = "ok" THEN "success" ELSE "error"]_vars

\* C14: no step changes a stored sync_logs row: a row that is still stored
\* after a step is the row it was before.
C14_LogRowsImmutable ==
    [][\A l \in sync_logs : \A l2 \in sync_logs' : l2.id = l.id => l2 = l]_vars

\* C15: after every step there is one stores row per domain at most and
\* every row that was stored is still stored under the same id; a completed
\* OAuth callback leaves the row of its shop active with the token and the
\* scopes of this install, a processed uninstall leaves it inactive, and no
\* other step changes a row.
C15_OneTenantPerDomain ==
    [][/\ \A s1 \in stores' : \A s2 \in stores' :
              s1.shop_domain = s2.shop_domain => s1 = s2
       /\ \A s \in stores : \E s2 \in stores' :
              s2.shop_domain = s.shop_domain /\ s2.id = s.id
       /\ \A s2 \in stores' :
              LET installed == /\ resp = NoResp /\ resp'.route = "auth.callback"
                               /\ resp'.status = 302 /\ resp'.shop = s2.shop_domain
                  uninstalled == /\ resp = NoResp /\ resp'.status = 200
                                 /\ resp'.route \in {"auth.uninstall", "webhooks.app-uninstalled"}
                                 /\ resp'.shop = s2.shop_domain
              IN /\ installed => /\ s2.is_active
                                 /\ s2.scopes = resp'.scopes
                                 /\ decrypt(s2.access_token) = PlatformToken(s2.shop_domain)
                 /\ uninstalled => ~s2.is_active
                 /\ (~installed /\ ~uninstalled) => s2 \in stores]_vars

\* the OAuth callback of the shop installed first completes again after the
\* other shop was installed and the first was uninstalled (its webhook rows
\* are gone): its row is active under its first id
C15_Witness ==
    /\ resp.route = "auth.callback" /\ resp.status = 302
    /\ nextStoreId = 3
    /\ resp.registered = {}
    /\ \E s \in stores :
          /\ s.shop_domain = resp.shop /\ s.id = 1 /\ s.is_active
          /\ \A w \in webhooks : w.store_id # s.id

\* C16: a webhook request that carries both headers passes verification
\* exactly when its X-Shopify-Hmac-SHA256 value is the MAC of the received
\* body under the shared secret: then it is answered by its handler (or 404
\* for an unknown tenant), otherwise it is answered 401 and nothing changes.
C16_WebhookMacExact ==
    [][(/\ resp = NoResp
        /\ resp'.route \in {"webhooks." \o r : r \in WebhookRoutes}
        /\ resp'.shop # NoShop /\ resp'.hmac # MissingHmac)
       => IF resp'.hmac = Hmac(ApiSecret, resp'.body)
          THEN resp'.status \in {200, 404}
          ELSE resp'.status = 401 /\ UNCHANGED dbVars]_vars

\* C17: no webhooks row is stored for an inactive tenant.
C17_NoWebhookRowsAfterUninstall ==
    \A s \in stores : ~s.is_active => \A w \in webhooks : w.store_id # s.id

\* C18: no entry of the nonce map is older than five minutes, and the entry
\* a callback accepts is the one stored and at most five minutes old.
C18_NonceExpires ==
    [][/\ \A shop \in Shops :
              nonces'[shop] # NoNonce => nonces'[shop].age <= Expiry
       /\ (resp = NoResp /\ resp'.route = "auth.callback" /\ resp'.status # 403)
              => /\ nonces[resp'.shop].value = resp'.state
                 /\ nonces[resp'.shop].age <= Expiry]_vars

\* an entry has been stored for five minutes and its timer is due
C18_Witness ==
    /\ nonces[FirstShop] # NoNonce /\ nonces[FirstShop].age = Expiry
    /\ \E timer \in timers : timer.shop = FirstShop /\ timer.left = 0

\* C19: a callback is accepted (it goes on to the token exchange) only for
\* the state value stored for its shop, and accepting removes the entry,
\* also when the exchange then fails; only GET /auth stores a value.
C19_NonceOneTime ==
    [][/\ (resp = NoResp /\ resp'.route = "auth.callback" /\ resp'.status # 403)
              => /\ nonces[resp'.shop] # NoNonce
                 /\ nonces[resp'.shop].value = resp'.state
                 /\ nonces'[resp'.shop] = NoNonce
       /\ \A shop \in Shops :
              (nonces'[shop] # NoNonce /\ nonces'[shop].value # nonces[shop].value)
                  => (resp'.route = "auth" /\ resp'.shop = shop)]_vars

\* after a callback whose exchange failed consumed the nonce, the same
\* state value is refused within the same minute
C19_Witness ==
    /\ resp.route = "auth.callback" /\ resp.error = "Invalid state parameter"
    /\ resp.state \in NonceValues
    /\ nonces[FirstShop] = NoNonce
    /\ stores = {}
    /\ \E timer \in timers : timer.left = Expiry

\* C20: a callback whose token exchange succeeded answers 302 with the
\* session of an active stored tenant whichever topics fail to register;
\* for a tenant missing webhook rows a create request of its session is
\* answered 200 and its credentials resolve.
C20_RegistrationFailureTolerated ==
    [][/\ (resp = NoResp /\ resp'.route = "auth.callback" /\ resp'.upstream = "ok")
              => /\ resp'.status = 302
                 /\ \E s \in stores' : /\ s.shop_domain = resp'.shop /\ s.is_active
                                       /\ s.id = resp'.session
       /\ (resp = NoResp /\ resp'.route = "admin.create"
           /\ getStoreById(resp'.session) # {})
              => resp'.status = 200
       /\ \A k \in api_keys : \A s \in stores :
              LET resolved == req'.pc = "resolved"
                  apiKey == IF resolved THEN req'.apiKey ELSE resp'.apiKey
              IN (/\ req.pc = "idle" /\ resp = NoResp
                  /\ (resolved \/ resp'.route = "api")
                  /\ k.api_key = hashApiKey(apiKey)
                  /\ k.is_active /\ k.store_id = s.id /\ s.is_active)
                 => resolved /\ req'.storeId = s.id]_vars

\* a credential of an active tenant none of whose topics registered is
\* resolved
C20_Witness ==
    /\ req.pc = "resolved"
    /\ webhooks = {}
    /\ \E s \in stores : s.id = req.storeId /\ s.is_active

\* C21: a request to an /api route is counted under its X-API-Key, or under
\* the client address when it presents none, and under no other key; it is
\* answered 429, with no credential resolved and nothing stored, exactly
\* when 100 requests were already counted under its key in the window; no
\* other step adds to a count.
C21_LimitPerKey ==
    [][IF /\ resp = NoResp /\ req.pc = "idle"
          /\ (resp'.route \in {"api", "api.health"} \/ req'.pc = "resolved")
       THEN LET apiKey == IF req'.pc = "resolved" THEN req'.apiKey ELSE resp'.apiKey
                key == IF apiKey = MissingKey THEN ClientIp ELSE apiKey
            IN /\ \A other \in LimiterKeys \ {key} : hits'[other] = hits[other]
               /\ hits'[key] \in {0, hits[key] + 1}
               /\ hits[key] >= Max => /\ resp'.status = 429
                                      /\ resp'.upstream = "none"
                                      /\ req' = req
                                      /\ UNCHANGED dbVars
               /\ hits[key] < Max => resp'.status # 429
       ELSE \A key \in LimiterKeys : hits'[key] \in {0, hits[key]}]_vars

\* the key of a stored credential is answered 429 after 100 requests while
\* the count of the client address is below the limit
C21_Witness ==
    /\ resp.route = "api" /\ resp.status = 429
    /\ resp.apiKey = generateApiKey(1)
    /\ getApiKeyByKey(generateApiKey(1)) # {}
    /\ hits[generateApiKey(1)] > Max
    /\ hits[ClientIp] \in 1..(Max - 1)

\* C22: a response of an /api route ends its request, and no /api response
\* is pending while the request is in flight; the platform was called for it only when
\* its credential was resolved and, on a route that requires a scope, the
\* resolved scopes hold that scope (or the write scope, where a read scope
\* is required by requireScope or GET /v1); a 401 or 403 response made no
\* platform call.
C22_UpstreamOnlyWhenAllowed ==
    [][/\ (req.pc = "resolved" => resp.route # "api")'
       /\ (resp = NoResp /\ resp'.route = "api")
              => /\ req'.pc = "idle"
                 /\ resp'.status \in {401, 403} => resp'.upstream = "none"
                 /\ resp'.upstream # "none"
                       => /\ req.pc = "resolved"
                          /\ resp'.apiRoute \in ApiRoutes
                                => LET route == resp'.apiRoute
                                       needs == IF route.kind = "requireScope"
                                                THEN route.scope
                                                ELSE IF route.kind = "v1.get"
                                                THEN Scope("read", route.res)
                                                ELSE Scope("write", route.res)
                                   IN \/ needs \in ScopeSet(req.scopes)
                                      \/ /\ needs.cls = "read"
                                         /\ Scope("write", needs.res) \in ScopeSet(req.scopes)]_vars

\* the platform was called on a route that requires the read scope for a
\* credential that holds the write scope only
C22_Witness ==
    /\ resp.route = "api" /\ resp.upstream = "ok" /\ resp.status = 200
    /\ resp.apiRoute.kind = "requireScope"
    /\ resp.apiRoute.scope = Scope("read", "orders")
    /\ resp.scopes = <<Scope("write", "orders")>>
    /\ req.pc = "idle"

\* C23: a request that passed credential resolution and the scope check on
\* a proxied route is answered after a call to the platform for the
\* resolved tenant, with the outcome of that call: 200 (201 on POST
\* /v1/:resource) when it succeeded, 500 when it failed.
C23_PermittedRequestProxied ==
    [][(/\ req.pc = "resolved" /\ resp = NoResp
        /\ resp'.route = "api" /\ resp'.status # 403
        /\ resp'.apiRoute.kind \notin {"logs", "stats"})
       => /\ resp'.upstream # "none"
          /\ resp'.upShop = req.shopDomain
          /\ resp'.upToken = req.accessToken
          /\ resp'.status = IF resp'.upstream = "failed" THEN 500
                            ELSE IF resp'.apiRoute.kind = "v1.post" THEN 201 ELSE 200]_vars

\* C24: a stores row is inserted, gets another token or scope string, or
\* becomes active again only in a step of GET /auth/callback whose hmac
\* parameter is the MAC of its query under the app secret, whose state is
\* the nonce stored for its shop and whose token exchange succeeded, and the
\* row is the one of that shop; a callback that is not answered 302 leaves
\* the stores table as it was.
C24_TenantOnlyByVerifiedCallback ==
    [][/\ \A s2 \in stores' :
              (\/ \A s \in stores : s.id # s2.id
               \/ \E s \in stores : /\ s.id = s2.id
                                    /\ \/ s.access_token # s2.access_token
                                       \/ s.scopes # s2.scopes
                                       \/ s.shop_domain # s2.shop_domain
                                       \/ (~s.is_active /\ s2.is_active))
              => /\ resp = NoResp /\ resp'.route = "auth.callback"
                 /\ resp'.shop = s2.shop_domain
                 /\ resp'.hmac = Hmac(ApiSecret, queryMessage(resp'.shop, resp'.state))
                 /\ nonces[resp'.shop] # NoNonce
                 /\ nonces[resp'.shop].value = resp'.state
                 /\ resp'.upstream = "ok"
       /\ (resp = NoResp /\ resp'.route = "auth.callback" /\ resp'.status # 302)
              => UNCHANGED <<stores, nextStoreId>>]_vars

\* a callback with a valid MAC and a state that is not the stored nonce was
\* refused for an uninstalled shop, whose row is still inactive
C24_Witness ==
    /\ resp.route = "auth.callback" /\ resp.error = "Invalid state parameter"
    /\ resp.hmac = Hmac(ApiSecret, queryMessage(resp.shop, resp.state))
    /\ nonces[resp.shop] # NoNonce
    /\ \E s \in stores : s.shop_domain = resp.shop /\ ~s.is_active

\* C25: a completed OAuth callback leaves every api_keys row as it was; a
\* resolved request carries the scopes column of its credential, and it
\* is not answered 403 on a route whose scope the credential names,
\* whatever scopes the tenant holds.
C25_ReinstallKeepsCredentials ==
    [][/\ (resp = NoResp /\ resp'.route = "auth.callback")
              => UNCHANGED <<api_keys, nextKeyId>>
       /\ (req.pc = "idle" /\ req'.pc = "resolved")
              => \E k \in api_keys : /\ k.id = req'.apiKeyId
                                     /\ req'.scopes = Split(k.scopes)
       /\ (req.pc = "resolved" /\ resp = NoResp /\ resp'.route = "api")
              => \A k \in api_keys :
                    (/\ k.id = req.apiKeyId
                     /\ resp'.apiRoute \in ApiRoutes
                     /\ requiredScope(resp'.apiRoute) \in ScopeSet(k.scopes))
                    => resp'.status # 403]_vars

\* a credential with the write scope is served on a route that requires it
\* after its tenant was installed again with the read scope only
C25_Witness ==
    /\ resp.route = "api" /\ resp.status = 200
    /\ requiredScope(resp.apiRoute) = Scope("write", "orders")
    /\ \E s \in stores : /\ s.id = resp.session /\ s.is_active
                         /\ s.scopes = <<Scope("read", "orders")>>
    /\ \E k \in api_keys : k.id = resp.keyId /\ Scope("write", "orders") \in ScopeSet(k.scopes)

\* C26: an entry of the nonce map is removed only by a callback that
\* presents its value as state or once it has been stored for five
\* minutes; until then the entry of a shop is the value of the latest GET
\* /auth for that shop, so a callback that presents it passes the state
\* check.
C26_NonceKeptUntilDue ==
    [][\A shop \in Shops :
          (nonces[shop] # NoNonce /\ nonces'[shop] = NoNonce)
          => \/ /\ resp = NoResp /\ resp'.route = "auth.callback"
                /\ resp'.shop = shop /\ resp'.state = nonces[shop].value
             \/ nonces[shop].age >= Expiry]_vars

\* C27: an /api request that presents no key or no secret, or a key that
\* is not the key of an active credential of an active tenant, leaves every
\* table as it was (no last_used_at is set, no sync_logs row is inserted)
\* and is not passed on to a handler.
C27_FailedResolutionChangesNothing ==
    [][(/\ req.pc = "idle" /\ resp = NoResp
        /\ (resp'.route = "api" \/ req'.pc = "resolved"))
       => LET resolved == req'.pc = "resolved"
              apiKey == IF resolved THEN req'.apiKey ELSE resp'.apiKey
              apiSecret == IF resolved THEN req'.apiSecret ELSE resp'.apiSecret
              fails == \/ apiKey = MissingKey
                       \/ apiSecret = MissingSecret
                       \/ ~\E k \in api_keys, s \in stores :
                              /\ k.api_key = hashApiKey(apiKey) /\ k.is_active
                              /\ k.store_id = s.id /\ s.is_active
          IN fails => /\ UNCHANGED dbVars
                      /\ ~resolved
                      /\ resp'.status \in {401, 500}]_vars

\* the key of a deactivated credential was refused and the credential's
\* last_used_at is as it was
C27_Witness ==
    /\ resp.route = "api" /\ resp.status = 401 /\ resp.error = "Invalid API key"
    /\ \E k \in api_keys : /\ k.api_key = hashApiKey(resp.apiKey)
                           /\ ~k.is_active
                           /\ k.last_used_at = "NULL"
                           /\ \E s \in stores : s.id = k.store_id /\ s.is_active

\* C28: a key that was issued and is the key of no active credential
\* (its credential was deactivated or deleted) stays so, and no request
\* that presents it is resolved.
C28_RevokedKeyNeverResolves ==
    [][\A n \in 1..MaxKeys :
          (/\ n < nextKeyId
           /\ ~\E k \in api_keys : k.api_key = hashApiKey(generateApiKey(n)) /\ k.is_active)
          => /\ ~\E k \in api_keys' : k.api_key = hashApiKey(generateApiKey(n)) /\ k.is_active
             /\ ~(/\ req.pc = "idle" /\ req'.pc = "resolved"
                  /\ req'.apiKey = generateApiKey(n))]_vars

\* the key of a deleted credential was refused after another credential was
\* created for its tenant, and the key of a deactivated credential after its
\* tenant was installed again
C28_Witness ==
    /\ resp.route = "api" /\ resp.status = 401 /\ resp.error = "Invalid API key"
    /\ nextKeyId > 2
    /\ \E s \in stores : s.is_active
    /\ \E k \in api_keys : k.is_active
    /\ \/ \A k \in api_keys : k.api_key # hashApiKey(resp.apiKey)
       \/ \E k \in api_keys : k.api_key = hashApiKey(resp.apiKey) /\ ~k.is_active

C30_TenantIsolation ==
    [][/\ (req.pc = "idle" /\ req'.pc = "resolved")
              => \E k \in api_keys, s \in stores :
                    /\ k.api_key = hashApiKey(req'.apiKey)
                    /\ k.store_id = s.id
                    /\ req'.storeId = s.id
                    /\ req'.shopDomain = s.shop_domain
                    /\ req'.accessToken = decrypt(s.access_token)
       /\ (req.pc = "resolved" /\ resp = NoResp /\ resp'.route = "api")
              => /\ resp'.upstream # "none"
                       => \E s \in stores : /\ s.id = req.storeId
                                            /\ resp'.upShop = s.shop_domain
                                            /\ resp'.upToken = decrypt(s.access_token)
                 /\ \A l \in sync_logs' \ sync_logs : l.store_id = req.storeId
                 /\ \A l \in resp'.rows : l.store_id = req.storeId]_vars

\* GET /logs of one tenant was answered while sync_logs holds a row of the
\* other tenant
C30_Witness ==
    /\ resp.route = "api" /\ resp.status = 200
    /\ resp.apiRoute.kind = "logs"
    /\ \E l \in sync_logs : l.store_id # resp.session
    /\ resp.rows = {l \in sync_logs : l.store_id = resp.session}
    /\ Cardinality({s \in stores : s.is_active}) = 2
====
